---- MODULE Spec2Model ----
(***************************************************************************)
(* Binary Byzantine agreement (src/src/agreement/mod.rs).                  *)
(*                                                                         *)
(* One Agreement instance is a record; every method of the instance is an  *)
(* operator from an instance to the instance after the call.  The Step a   *)
(* call returns is accumulated in the field `step` in emission order.      *)
(* Option<T> is a set with at most one element, BinValues is a subset of   *)
(* BOOLEAN, a BTreeMap keyed by NodeUid is a function over Ids whose       *)
(* absent entries are the empty set.                                       *)
(* A method that calls a method defined further down, or one it is         *)
(* mutually recursive with, makes the call through `invoke`.               *)
(***************************************************************************)
EXTENDS Integers, Sequences, FiniteSets, TLC

\* Largest epoch an instance is let into.
MaxEpoch == 3
\* Largest number of validators of a network.
MaxNodes == 4
\* Longest incoming_queue the single instance of Spec is let to build.
MaxQueue == 2
\* Number of calls the host makes on the single instance of Spec.
MaxCalls == 5
\* Largest distance between the epoch of a message passed to the single
\* instance of Spec and the epoch of the instance.
Window == 1
\* Number of times the adversary of the test network acts in a run.
MaxAdversary == 2
\* Number of calls the host makes on the observer of SpecObserved.
MaxObserved == 9

\* Node ids: validators are 1..num_nodes, 0 is the id of an observer.
Ids == 0..MaxNodes

None == {}

Some(x) == {x}

Unwrap(o) == CHOOSE x \in o : TRUE

VARIABLES net, agreement, coin_values, messages, cranks, call, history

vars == <<net, agreement, coin_values, messages, cranks, call, history>>

(***************************************************************************)
(* BinValues (agreement/bin_values.rs): the lattice of subsets of          *)
(* {false, true}.                                                          *)
(***************************************************************************)
BinValues == SUBSET BOOLEAN

from_bool(b) == {b}

contains(v, b) == b \in v

is_subset(v, other) == v \subseteq other

definite(v) == IF Cardinality(v) = 1 THEN v ELSE None

(***************************************************************************)
(* Messages.  `val` is the boolean of BVal, Aux and Term as a singleton,   *)
(* the BinValues of Conf, and empty for Coin (the share is opaque).        *)
(***************************************************************************)
with_epoch(kind, val, epoch) == [epoch |-> epoch, kind |-> kind, val |-> val]

Kinds == {"BVal", "Aux", "Conf", "Term", "Coin"}

Contents(kind) ==
    CASE kind \in {"BVal", "Aux", "Term"} -> {{TRUE}, {FALSE}}
      [] kind = "Conf" -> BinValues
      [] kind = "Coin" -> {{}}

AgreementMessage ==
    UNION { { with_epoch(k, v, e) : v \in Contents(k), e \in 0..MaxEpoch } : k \in Kinds }

\* CommonCoin::new
CommonCoin_new ==
    [had_input |-> FALSE, received_shares |-> {}, terminated |-> FALSE, inputs |-> 0]

Step_default == [messages |-> <<>>, output |-> <<>>]

\* Agreement::new
Agreement_new(our_uid, num_nodes, num_faulty, is_validator) ==
    [ netinfo |-> [our_uid |-> our_uid, num_nodes |-> num_nodes,
                   num_faulty |-> num_faulty, is_validator |-> is_validator],
      epoch |-> 0,
      bin_values |-> {},
      received_bval |-> [p \in Ids |-> {}],
      sent_bval |-> {},
      received_aux |-> [p \in Ids |-> None],
      received_conf |-> [p \in Ids |-> None],
      received_term |-> [p \in Ids |-> None],
      estimated |-> None,
      decision |-> None,
      incoming_queue |-> <<>>,
      terminated |-> FALSE,
      conf_round |-> FALSE,
      common_coin |-> CommonCoin_new,
      coin_schedule |-> "True",
      step |-> Step_default,
      dispatched |-> {},
      entered |-> {},
      aux_sent |-> {},
      coins |-> {},
      coin_inputs |-> {} ]

\* Target::All.message(msg) pushed on the step being built.
emit(s, msg) == [s EXCEPT !.step.messages = Append(@, msg)]

\* coin_schedule without the Random epochs.
coin_schedule_never_random(s) ==
    CASE s.epoch % 3 = 0 -> "True"
      [] OTHER -> "False"

\* Agreement::coin_schedule
coin_schedule(s) ==
    CASE s.epoch % 3 = 0 -> "True"
      [] s.epoch % 3 = 1 -> "False"
      [] OTHER -> "Random"

\* count_aux that adds the number of Term entries to the number of Aux
\* entries.
count_aux_twice(s) ==
    LET aux  == { p \in Ids : s.received_aux[p] # None
                              /\ contains(s.bin_values, Unwrap(s.received_aux[p])) }
        term == { p \in Ids : s.received_term[p] # None
                              /\ contains(s.bin_values, Unwrap(s.received_term[p])) }
        value(p) == IF p \in term THEN s.received_term[p] ELSE s.received_aux[p]
    IN  [count |-> Cardinality(aux) + Cardinality(term),
         vals  |-> UNION { value(p) : p \in aux \cup term }]

\* Agreement::count_aux: (aux.len(), bin)
count_aux(s) ==
    LET aux  == { p \in Ids : s.received_aux[p] # None
                              /\ contains(s.bin_values, Unwrap(s.received_aux[p])) }
        term == { p \in Ids : s.received_term[p] # None
                              /\ contains(s.bin_values, Unwrap(s.received_term[p])) }
        \* aux.extend(term): the Term entry replaces the Aux entry of a peer.
        value(p) == IF p \in term THEN s.received_term[p] ELSE s.received_aux[p]
    IN  [count |-> Cardinality(aux \cup term),
         vals  |-> UNION { value(p) : p \in aux \cup term }]

\* Agreement::count_conf: (count, union) of the Conf values within bin_values
count_conf(s) ==
    LET adm == { p \in Ids : s.received_conf[p] # None
                             /\ is_subset(Unwrap(s.received_conf[p]), s.bin_values) }
    IN  [count |-> Cardinality(adm),
         vals  |-> UNION { Unwrap(s.received_conf[p]) : p \in adm }]

\* Agreement::update_epoch
update_epoch(s) ==
    LET s1 == [s EXCEPT !.bin_values = {},
                        !.received_bval = [p \in Ids |-> {}],
                        !.sent_bval = {},
                        !.received_aux = [p \in Ids |-> None],
                        !.received_conf = [p \in Ids |-> None],
                        !.conf_round = FALSE,
                        !.epoch = @ + 1,
                        !.common_coin = CommonCoin_new]
    IN  [s1 EXCEPT !.coin_schedule = coin_schedule(s1),
                   !.entered = IF s.terminated THEN @ ELSE @ \cup {s1.epoch}]

\* decide without the check of `terminated`.
decide_unlatched(s, b) ==
    LET s1 == [s EXCEPT !.step.output = Append(@, b), !.decision = Some(b)]
        s2 == IF s1.netinfo.is_validator
              THEN [emit(s1, with_epoch("Term", {b}, s1.epoch))
                       EXCEPT !.received_term[s1.netinfo.our_uid] = Some(b)]
              ELSE s1
    IN  [s2 EXCEPT !.terminated = TRUE]

\* decide that does not latch the decision.
decide_without_decision(s, b) ==
    IF s.terminated THEN s
    ELSE LET s1 == [s EXCEPT !.step.output = Append(@, b)]
             s2 == IF s1.netinfo.is_validator
                   THEN [emit(s1, with_epoch("Term", {b}, s1.epoch))
                            EXCEPT !.received_term[s1.netinfo.our_uid] = Some(b)]
                   ELSE s1
         IN  [s2 EXCEPT !.terminated = TRUE]

\* Agreement::decide
decide(s, b) ==
    IF s.terminated THEN s
    ELSE LET s1 == [s EXCEPT !.step.output = Append(@, b), !.decision = Some(b)]
             s2 == IF s1.netinfo.is_validator
                   THEN [emit(s1, with_epoch("Term", {b}, s1.epoch))
                            EXCEPT !.received_term[s1.netinfo.our_uid] = Some(b)]
                   ELSE s1
         IN  [s2 EXCEPT !.terminated = TRUE]

RECURSIVE invoke(_, _, _)
RECURSIVE replay(_, _)

(***************************************************************************)
(* CommonCoin (common_coin.rs): a coin operation yields the instance with  *)
(* the coin messages, wrapped as Coin of the current epoch, on its step,   *)
(* and the coin output, if the operation produced it.  The value of the    *)
(* coin of an epoch is fixed by its nonce: coin_values[epoch].             *)
(***************************************************************************)
CommonCoin_try_output(s) ==
    IF s.common_coin.had_input /\ ~s.common_coin.terminated
       /\ Cardinality(s.common_coin.received_shares) > s.netinfo.num_faulty
    THEN [st |-> [s EXCEPT !.common_coin.terminated = TRUE],
          out |-> Some(coin_values[s.epoch])]
    ELSE [st |-> s, out |-> None]

CommonCoin_handle_message(s, sender_id) ==
    IF s.common_coin.terminated THEN [st |-> s, out |-> None]
    ELSE CommonCoin_try_output(
            [s EXCEPT !.common_coin.received_shares = @ \cup {sender_id}])

CommonCoin_input(s) ==
    LET s0 == [s EXCEPT !.common_coin.inputs = IF @ < 2 THEN @ + 1 ELSE @,
                        !.coin_inputs =
                           @ \cup {[epoch |-> s.epoch, schedule |-> s.coin_schedule,
                                     conf_round |-> s.conf_round,
                                     confs |-> count_conf(s).count]}]
    IN  IF s0.common_coin.had_input THEN [st |-> s0, out |-> None]
        ELSE LET s1 == [s0 EXCEPT !.common_coin.had_input = TRUE]
             IN  IF ~s1.netinfo.is_validator THEN CommonCoin_try_output(s1)
                 ELSE CommonCoin_handle_message(
                         emit(s1, with_epoch("Coin", {}, s1.epoch)), s1.netinfo.our_uid)

\* handle_bval that sends Aux(b) whenever BVal(b) is counted from 2f + 1
\* senders.
handle_bval_aux_again(s, sender_id, b) ==
    LET s1 == [s EXCEPT !.received_bval[sender_id] = @ \cup {b}]
        count_bval == Cardinality({ p \in Ids : b \in s1.received_bval[p] })
        s2 == IF count_bval = 2 * s1.netinfo.num_faulty + 1
              THEN LET previous_bin_values == s1.bin_values
                       bin_values_changed == ~contains(s1.bin_values, b)
                       sA == [s1 EXCEPT !.bin_values = @ \cup {b}]
                       sB == invoke("send_aux", sA, <<b>>)
                   IN  IF bin_values_changed THEN invoke("on_bin_values_changed", sB, <<>>) ELSE sB
              ELSE s1
    IN  IF count_bval = s2.netinfo.num_faulty + 1 /\ ~(b \in s2.sent_bval)
        THEN invoke("send_bval", s2, <<b>>)
        ELSE s2

\* handle_bval that puts b in the place of bin_values.
handle_bval_overwrite(s, sender_id, b) ==
    LET s1 == [s EXCEPT !.received_bval[sender_id] = @ \cup {b}]
        count_bval == Cardinality({ p \in Ids : b \in s1.received_bval[p] })
        s2 == IF count_bval = 2 * s1.netinfo.num_faulty + 1
              THEN LET previous_bin_values == s1.bin_values
                       bin_values_changed == ~contains(s1.bin_values, b)
                       sA == [s1 EXCEPT !.bin_values = from_bool(b)]
                       sB == IF previous_bin_values = {} THEN invoke("send_aux", sA, <<b>>) ELSE sA
                   IN  IF bin_values_changed THEN invoke("on_bin_values_changed", sB, <<>>) ELSE sB
              ELSE s1
    IN  IF count_bval = s2.netinfo.num_faulty + 1 /\ ~(b \in s2.sent_bval)
        THEN invoke("send_bval", s2, <<b>>)
        ELSE s2

\* handle_bval that takes b into bin_values at f + 1 senders.
handle_bval_believe_early(s, sender_id, b) ==
    LET s1 == [s EXCEPT !.received_bval[sender_id] = @ \cup {b}]
        count_bval == Cardinality({ p \in Ids : b \in s1.received_bval[p] })
        s2 == IF count_bval = s1.netinfo.num_faulty + 1
              THEN LET previous_bin_values == s1.bin_values
                       bin_values_changed == ~contains(s1.bin_values, b)
                       sA == [s1 EXCEPT !.bin_values = @ \cup {b}]
                       sB == IF previous_bin_values = {} THEN invoke("send_aux", sA, <<b>>) ELSE sA
                   IN  IF bin_values_changed THEN invoke("on_bin_values_changed", sB, <<>>) ELSE sB
              ELSE s1
    IN  IF count_bval = s2.netinfo.num_faulty + 1 /\ ~(b \in s2.sent_bval)
        THEN invoke("send_bval", s2, <<b>>)
        ELSE s2

\* handle_bval without the multicast of BVal(b) at f + 1 senders.
handle_bval_without_relay(s, sender_id, b) ==
    LET s1 == [s EXCEPT !.received_bval[sender_id] = @ \cup {b}]
        count_bval == Cardinality({ p \in Ids : b \in s1.received_bval[p] })
    IN  IF count_bval = 2 * s1.netinfo.num_faulty + 1
        THEN LET previous_bin_values == s1.bin_values
                 bin_values_changed == ~contains(s1.bin_values, b)
                 sA == [s1 EXCEPT !.bin_values = @ \cup {b}]
                 sB == IF previous_bin_values = {} THEN invoke("send_aux", sA, <<b>>) ELSE sA
             IN  IF bin_values_changed THEN invoke("on_bin_values_changed", sB, <<>>) ELSE sB
        ELSE s1

\* handle_bval that takes b into bin_values at the first sender.
handle_bval_believe_any(s, sender_id, b) ==
    LET s1 == [s EXCEPT !.received_bval[sender_id] = @ \cup {b}]
        count_bval == Cardinality({ p \in Ids : b \in s1.received_bval[p] })
        s2 == IF count_bval = 1
              THEN LET previous_bin_values == s1.bin_values
                       bin_values_changed == ~contains(s1.bin_values, b)
                       sA == [s1 EXCEPT !.bin_values = @ \cup {b}]
                       sB == IF previous_bin_values = {} THEN invoke("send_aux", sA, <<b>>) ELSE sA
                   IN  IF bin_values_changed THEN invoke("on_bin_values_changed", sB, <<>>) ELSE sB
              ELSE s1
    IN  IF count_bval = s2.netinfo.num_faulty + 1 /\ ~(b \in s2.sent_bval)
        THEN invoke("send_bval", s2, <<b>>)
        ELSE s2

\* Agreement::handle_bval
handle_bval(s, sender_id, b) ==
    LET s1 == [s EXCEPT !.received_bval[sender_id] = @ \cup {b}]
        count_bval == Cardinality({ p \in Ids : b \in s1.received_bval[p] })
        s2 == IF count_bval = 2 * s1.netinfo.num_faulty + 1
              THEN LET previous_bin_values == s1.bin_values
                       bin_values_changed == ~contains(s1.bin_values, b)
                       sA == [s1 EXCEPT !.bin_values = @ \cup {b}]
                       sB == IF previous_bin_values = {} THEN invoke("send_aux", sA, <<b>>) ELSE sA
                   IN  IF bin_values_changed THEN invoke("on_bin_values_changed", sB, <<>>) ELSE sB
              ELSE s1
    IN  IF count_bval = s2.netinfo.num_faulty + 1 /\ ~(b \in s2.sent_bval)
        THEN invoke("send_bval", s2, <<b>>)
        ELSE s2

\* Agreement::on_bin_values_changed
on_bin_values_changed(s) ==
    CASE s.coin_schedule = "False" ->
            IF count_aux(s).count >= s.netinfo.num_nodes - s.netinfo.num_faulty
            THEN invoke("on_coin", s, <<FALSE, definite(count_aux(s).vals)>>)
            ELSE s
      [] s.coin_schedule = "True" ->
            IF count_aux(s).count >= s.netinfo.num_nodes - s.netinfo.num_faulty
            THEN invoke("on_coin", s, <<TRUE, definite(count_aux(s).vals)>>)
            ELSE s
      [] s.coin_schedule = "Random" -> invoke("try_finish_conf_round", s, <<>>)

\* send_bval without the check of is_validator.
send_bval_any_node(s, b) ==
    LET s1 == [s EXCEPT !.sent_bval = @ \cup {b}]
    IN  handle_bval(emit(s1, with_epoch("BVal", {b}, s1.epoch)),
                    s1.netinfo.our_uid, b)

\* Agreement::send_bval
send_bval(s, b) ==
    IF ~s.netinfo.is_validator THEN s
    ELSE LET s1 == [s EXCEPT !.sent_bval = @ \cup {b}]
         IN  handle_bval(emit(s1, with_epoch("BVal", {b}, s1.epoch)),
                         s1.netinfo.our_uid, b)

\* send_conf that does not start the Conf round.
send_conf_without_round(s) ==
    IF s.conf_round THEN s
    ELSE IF ~s.netinfo.is_validator THEN s
    ELSE LET v == s.bin_values
         IN  invoke("handle_conf", emit(s, with_epoch("Conf", v, s.epoch)),
                    <<s.netinfo.our_uid, v>>)

\* Agreement::send_conf
send_conf(s) ==
    IF s.conf_round THEN s
    ELSE LET s1 == [s EXCEPT !.conf_round = TRUE]
         IN  IF ~s1.netinfo.is_validator THEN s1
             ELSE LET v == s1.bin_values
                  IN  invoke("handle_conf", emit(s1, with_epoch("Conf", v, s1.epoch)),
                             <<s1.netinfo.our_uid, v>>)

\* handle_aux that records the message and does no more.
handle_aux_record_only(s, sender_id, b) ==
    IF s.conf_round THEN s
    ELSE [s EXCEPT !.received_aux[sender_id] = Some(b)]

\* Agreement::handle_aux
handle_aux(s, sender_id, b) ==
    IF s.conf_round THEN s
    ELSE LET s1 == [s EXCEPT !.received_aux[sender_id] = Some(b)]
         IN  IF s1.bin_values = {} THEN s1
             ELSE IF count_aux(s1).count < s1.netinfo.num_nodes - s1.netinfo.num_faulty
             THEN s1
             ELSE CASE s1.coin_schedule = "False" ->
                          invoke("on_coin", s1, <<FALSE, definite(count_aux(s1).vals)>>)
                    [] s1.coin_schedule = "True" ->
                          invoke("on_coin", s1, <<TRUE, definite(count_aux(s1).vals)>>)
                    [] s1.coin_schedule = "Random" -> send_conf(s1)

\* Agreement::handle_conf
handle_conf(s, sender_id, v) ==
    invoke("try_finish_conf_round", [s EXCEPT !.received_conf[sender_id] = Some(v)], <<>>)

\* Agreement::handle_term
handle_term(s, sender_id, b) ==
    LET s1 == [s EXCEPT !.received_term[sender_id] = Some(b)]
    IN  IF s1.decision = None
           /\ Cardinality({ p \in Ids : s1.received_term[p] = Some(b) })
                > s1.netinfo.num_faulty
        THEN decide(s1, b)
        ELSE s1

\* Agreement::on_coin_step, applied to the outcome of a coin operation
on_coin_step(r) ==
    IF r.out # None
    THEN invoke("on_coin", r.st, <<Unwrap(r.out), definite(count_conf(r.st).vals)>>)
    ELSE r.st

\* Agreement::handle_coin
handle_coin(s, sender_id) == on_coin_step(CommonCoin_handle_message(s, sender_id))

RECURSIVE replay_keep_rest(_, _)
\* The loop of on_coin that, when the node terminates, puts the messages it
\* has not handled back into incoming_queue.
replay_keep_rest(s, queued_msgs) ==
    IF queued_msgs = <<>> THEN s
    ELSE LET s1 == invoke("handle_message", s,
                          <<Head(queued_msgs).sender_id, Head(queued_msgs).msg>>)
         IN  IF s1.terminated
             THEN [s1 EXCEPT !.incoming_queue = @ \o Tail(queued_msgs)]
             ELSE replay_keep_rest(s1, Tail(queued_msgs))

\* The loop of Agreement::on_coin over the messages taken from incoming_queue.
replay(s, queued_msgs) ==
    IF queued_msgs = <<>> THEN s
    ELSE LET s1 == invoke("handle_message", s,
                          <<Head(queued_msgs).sender_id, Head(queued_msgs).msg>>)
         IN  IF s1.terminated THEN s1 ELSE replay(s1, Tail(queued_msgs))

\* on_coin without the replay of incoming_queue.
on_coin_without_replay(s, coin, def_bin_value) ==
    IF s.terminated THEN s
    ELSE LET s1 == IF def_bin_value # None /\ s.decision = None
                      /\ Unwrap(def_bin_value) = coin
                   THEN decide(s, Unwrap(def_bin_value))
                   ELSE s
             b  == IF def_bin_value # None THEN Unwrap(def_bin_value) ELSE coin
             s2 == [update_epoch(s1) EXCEPT !.estimated = Some(b)]
             s3 == invoke("send_bval", s2, <<b>>)
         IN  [s3 EXCEPT !.incoming_queue = <<>>]

\* on_coin that decides the estimate of the node, not the value the Aux
\* messages agree on.
on_coin_decide_estimated(s, coin, def_bin_value) ==
    IF s.terminated THEN s
    ELSE LET s1 == IF def_bin_value # None /\ s.decision = None
                      /\ Unwrap(def_bin_value) = coin
                   THEN decide(s, IF s.estimated # None THEN Unwrap(s.estimated)
                                  ELSE Unwrap(def_bin_value))
                   ELSE s
             b  == IF def_bin_value # None THEN Unwrap(def_bin_value) ELSE coin
             s2 == [update_epoch(s1) EXCEPT !.estimated = Some(b)]
             s3 == invoke("send_bval", s2, <<b>>)
         IN  replay([s3 EXCEPT !.incoming_queue = <<>>], s3.incoming_queue)

\* What a call of on_coin on the instance s did, s1 being the instance after
\* the decision was tried and s2 the instance when the new epoch has its
\* estimate: the epoch left and its schedule, the coin value and the
\* candidate, the Conf round of the epoch left, and what came of it, with
\* received_term on either side of update_epoch.
applied(s, coin, def_bin_value, s1, s2) ==
    [epoch |-> s.epoch, schedule |-> s.coin_schedule, coin |-> coin,
     def_bin_value |-> def_bin_value, decision |-> s.decision,
     conf_round |-> s.conf_round, confs |-> count_conf(s).count,
     had_input |-> s.common_coin.had_input,
     output |-> SubSeq(s1.step.output, Len(s.step.output) + 1, Len(s1.step.output)),
     decided |-> s1.decision, estimated |-> s2.estimated, next |-> s2.epoch,
     term_before |-> s1.received_term, term_after |-> s2.received_term]

\* on_coin that takes the coin value for the estimate of the next epoch.
on_coin_estimate_coin(s, coin, def_bin_value) ==
    IF s.terminated THEN s
    ELSE LET s1 == IF def_bin_value # None /\ s.decision = None
                      /\ Unwrap(def_bin_value) = coin
                   THEN decide(s, Unwrap(def_bin_value))
                   ELSE s
             b  == coin
             s2 == [update_epoch(s1) EXCEPT !.estimated = Some(b)]
             s3 == invoke("send_bval", [s2 EXCEPT !.coins =
                             @ \cup {applied(s, coin, def_bin_value, s1, s2)}], <<b>>)
         IN  replay([s3 EXCEPT !.incoming_queue = <<>>], s3.incoming_queue)

\* Agreement::on_coin
on_coin(s, coin, def_bin_value) ==
    IF s.terminated THEN s
    ELSE LET s1 == IF def_bin_value # None /\ s.decision = None
                      /\ Unwrap(def_bin_value) = coin
                   THEN decide(s, Unwrap(def_bin_value))
                   ELSE s
             b  == IF def_bin_value # None THEN Unwrap(def_bin_value) ELSE coin
             s2 == [update_epoch(s1) EXCEPT !.estimated = Some(b)]
             s3 == invoke("send_bval", [s2 EXCEPT !.coins =
                             @ \cup {applied(s, coin, def_bin_value, s1, s2)}], <<b>>)
         IN  replay([s3 EXCEPT !.incoming_queue = <<>>], s3.incoming_queue)

\* try_finish_conf_round that does not count the Conf values.
try_finish_conf_round_any_count(s) ==
    IF s.conf_round
    THEN on_coin_step(CommonCoin_input(s))
    ELSE s

\* Agreement::try_finish_conf_round
try_finish_conf_round(s) ==
    IF s.conf_round
       /\ count_conf(s).count >= s.netinfo.num_nodes - s.netinfo.num_faulty
    THEN on_coin_step(CommonCoin_input(s))
    ELSE s

\* Agreement::send_aux
send_aux(s, b) ==
    IF ~s.netinfo.is_validator THEN s
    ELSE LET s1 == [s EXCEPT !.aux_sent =
                       @ \cup {[epoch |-> s.epoch, val |-> b, bin_values |-> s.bin_values]}]
         IN  handle_aux(emit(s1, with_epoch("Aux", {b}, s1.epoch)), s1.netinfo.our_uid, b)

\* handle_message that lets the messages of earlier epochs through.
handle_message_any_epoch(s, sender_id, message) ==
    IF s.terminated THEN s
    ELSE IF message.epoch > s.epoch
    THEN [s EXCEPT !.incoming_queue =
                      Append(@, [sender_id |-> sender_id, msg |-> message])]
    ELSE LET s1 == [s EXCEPT !.dispatched =
                        @ \cup {[sender_id |-> sender_id, msg |-> message, at |-> s.epoch]}]
             b  == Unwrap(message.val)
         IN  CASE message.kind = "BVal" -> handle_bval(s1, sender_id, b)
               [] message.kind = "Aux"  -> handle_aux(s1, sender_id, b)
               [] message.kind = "Conf" -> handle_conf(s1, sender_id, message.val)
               [] message.kind = "Term" -> handle_term(s1, sender_id, b)
               [] message.kind = "Coin" -> handle_coin(s1, sender_id)

\* Agreement::handle_message (DistAlgorithm)
handle_message(s, sender_id, message) ==
    IF s.terminated \/ message.epoch < s.epoch THEN s
    ELSE IF message.epoch > s.epoch
    THEN [s EXCEPT !.incoming_queue =
                      Append(@, [sender_id |-> sender_id, msg |-> message])]
    ELSE LET s1 == [s EXCEPT !.dispatched =
                        @ \cup {[sender_id |-> sender_id, msg |-> message, at |-> s.epoch]}]
             b  == Unwrap(message.val)
         IN  CASE message.kind = "BVal" -> handle_bval(s1, sender_id, b)
               [] message.kind = "Aux"  -> handle_aux(s1, sender_id, b)
               [] message.kind = "Conf" -> handle_conf(s1, sender_id, message.val)
               [] message.kind = "Term" -> handle_term(s1, sender_id, b)
               [] message.kind = "Coin" -> handle_coin(s1, sender_id)

\* A call of a method of the instance from within another method: `op` is
\* the method, `args` its arguments.
invoke(op, s, args) ==
    CASE op = "handle_message" -> handle_message(s, args[1], args[2])
      [] op = "send_bval" -> send_bval(s, args[1])
      [] op = "send_aux" -> send_aux(s, args[1])
      [] op = "handle_conf" -> handle_conf(s, args[1], args[2])
      [] op = "on_bin_values_changed" -> on_bin_values_changed(s)
      [] op = "try_finish_conf_round" -> try_finish_conf_round(s)
      [] op = "on_coin" -> on_coin(s, args[1], args[2])

\* accepts_input that looks at the epoch alone.
accepts_input_in_epoch_0(s) == s.epoch = 0

\* Agreement::accepts_input
accepts_input(s) == s.epoch = 0 /\ s.estimated = None

\* set_input that takes the other value for the input.
set_input_negated(s, input) ==
    IF s.netinfo.num_nodes = 1
    THEN decide(send_aux(send_bval(s, ~input), ~input), ~input)
    ELSE send_bval([s EXCEPT !.estimated = Some(~input)], ~input)

\* Agreement::set_input, when the input is accepted
set_input(s, input) ==
    IF s.netinfo.num_nodes = 1
    THEN decide(send_aux(send_bval(s, input), input), input)
    ELSE send_bval([s EXCEPT !.estimated = Some(input)], input)

(***************************************************************************)
(* The host.  `net` is the membership (NetworkInfo): validators 1..N, the  *)
(* ids in `correct` run the code above, every other validator is in the    *)
(* hands of the adversary, and the inputs the nodes are given are among    *)
(* `inputs`.  `call` is the last call made on an instance:                  *)
(* the instance before the call and what the call returned.  `history`     *)
(* counts what the calls have returned so far.                             *)
(***************************************************************************)
Validators == 1..net.num_nodes

Faulty == Validators \ net.correct

NoMessage == with_epoch("None", {}, 0)

\* The instance between calls: the host has taken the step.
between_calls(s) ==
    [s EXCEPT !.step = Step_default, !.dispatched = {}, !.entered = {}, !.aux_sent = {},
              !.coins = {}, !.coin_inputs = {}]

count_kind(step, kind) ==
    Cardinality({ k \in 1..Len(step.messages) : step.messages[k].kind = kind })

Min(a, b) == IF a < b THEN a ELSE b

\* What identifies a broadcast that is to be made once: BVal by its epoch
\* and value, Aux and Conf by their epoch.
broadcast(m) == IF m.kind = "BVal" THEN m ELSE [m EXCEPT !.val = {}]

RECURSIVE tally(_, _)
\* The BVal, Aux and Conf messages of a step, in the order of the step, added
\* to `st`: the broadcasts made so far and those made more than once.
tally(st, msgs) ==
    IF msgs = <<>> THEN st
    ELSE LET m == Head(msgs)
             k == broadcast(m)
         IN  IF m.kind \notin {"BVal", "Aux", "Conf"} THEN tally(st, Tail(msgs))
             ELSE tally([sent  |-> st.sent \cup {k},
                         twice |-> IF k \in st.sent THEN st.twice \cup {k} ELSE st.twice],
                        Tail(msgs))

\* What the call `c` returned, added to what the earlier calls returned:
\* the outputs, Term messages and broadcasts of its step and, for a Term
\* message, the peer it came from (term_from: passed to a node that has not
\* decided; term_delivered: passed to a node that has not terminated).
record(h, c) ==
    LET i == c.node
        st == tally([sent |-> h.sent[i], twice |-> h.twice[i]], c.step.messages)
        h1 == [h EXCEPT !.outputs[i] = Min(2, @ + Len(c.step.output)),
                        !.terms[i] = Min(2, @ + count_kind(c.step, "Term")),
                        !.sent[i] = st.sent,
                        !.twice[i] = st.twice]
        h2 == IF c.op = "handle_message" /\ c.msg.kind = "Term" /\ c.before.decision = None
              THEN [h1 EXCEPT !.term_from[i][Unwrap(c.msg.val)] = @ \cup {c.sender_id}]
              ELSE h1
    IN  IF c.op = "handle_message" /\ c.msg.kind = "Term" /\ ~c.before.terminated
        THEN [h2 EXCEPT !.term_delivered[i] =
                           @ \cup {[sender_id |-> c.sender_id, val |-> Unwrap(c.msg.val),
                                     epoch |-> c.msg.epoch]}]
        ELSE h2

\* A call: its arguments, the instance before it, the peers whose Term
\* messages had been passed to the instance before it, and what it returned.
returned(op, i, sender_id, msg, input, ok, before, s) ==
    [op |-> op, node |-> i, sender_id |-> sender_id, msg |-> msg, input |-> input,
     ok |-> ok, before |-> before,
     term_from |-> IF op # "none" /\ i \in net.correct THEN history.term_from[i]
                                        ELSE [b \in BOOLEAN |-> {}],
     step |-> s.step, dispatched |-> s.dispatched, entered |-> s.entered,
     aux_sent |-> s.aux_sent, coins |-> s.coins, coin_inputs |-> s.coin_inputs]

\* DistAlgorithm::input on node i: Err(InputNotAccepted) is ok = FALSE.
Input(i, b) ==
    \E s0 \in {agreement[i]} :
       \E ok \in {accepts_input(s0)} :
          \E s1 \in {IF ok THEN set_input(s0, b) ELSE s0} :
             /\ s1.epoch <= MaxEpoch
             /\ agreement' = [agreement EXCEPT ![i] = between_calls(s1)]
             /\ call' = returned("input", i, i, NoMessage, {b}, ok, s0, s1)
             /\ history' = [record(history, call') EXCEPT
                               !.accepted[i] = IF ok THEN Min(2, @ + 1) ELSE @,
                               !.input[i] = IF ok /\ @ = None THEN Some(b) ELSE @,
                               !.calls = Min(MaxCalls, @ + 1)]

\* DistAlgorithm::handle_message on node i.  The instance after the call is
\* bound once, as the one element of a set.
HandleMessage(i, sender_id, msg) ==
    \E s0 \in {agreement[i]} :
       \E s1 \in {handle_message(s0, sender_id, msg)} :
          /\ s1.epoch <= MaxEpoch
          /\ agreement' = [agreement EXCEPT ![i] = between_calls(s1)]
          /\ call' = returned("handle_message", i, sender_id, msg, {}, TRUE, s0, s1)

NoCall ==
    returned("none", 0, 0, NoMessage, {}, TRUE, Agreement_new(0, 1, 0, FALSE),
             Agreement_new(0, 1, 0, FALSE))

RandomEpochs == { e \in 0..(MaxEpoch + 1) : e % 3 = 2 }

\* The host of the single instance gives it an input.
SetInput ==
    /\ history.calls < MaxCalls
    /\ \E i \in net.correct, b \in net.inputs : Input(i, b)
    /\ UNCHANGED <<net, coin_values, messages, cranks>>

\* The host of the single instance passes it a message of a peer, of an
\* epoch at most Window away from the epoch of the instance.
Receive ==
    /\ history.calls < MaxCalls
    /\ \E i \in net.correct :
          \E p \in Validators \ {i}, m \in AgreementMessage :
             /\ m.epoch <= agreement[i].epoch + Window
             /\ m.epoch + Window >= agreement[i].epoch
             /\ HandleMessage(i, p, m)
             /\ Len(agreement'[i].incoming_queue) <= MaxQueue
             /\ history' = [record(history, call') EXCEPT
                               !.calls = Min(MaxCalls, @ + 1)]
    /\ UNCHANGED <<net, coin_values, messages, cranks>>

InitHost(nets) ==
    /\ net \in nets
    /\ cranks = 0
    /\ agreement = [i \in net.correct |->
                       Agreement_new(i, net.num_nodes, net.num_faulty, i # 0)]
    /\ coin_values \in [RandomEpochs -> BOOLEAN]
    /\ messages = <<>>
    /\ call = NoCall
    /\ history = [calls |-> 0, adversary |-> 0,
                  accepted |-> [i \in net.correct |-> 0],
                  input |-> [i \in net.correct |-> None],
                  outputs |-> [i \in net.correct |-> 0],
                  terms |-> [i \in net.correct |-> 0],
                  term_from |-> [i \in net.correct |-> [b \in BOOLEAN |-> {}]],
                  term_delivered |-> [i \in net.correct |-> {}],
                  sent |-> [i \in net.correct |-> {}],
                  twice |-> [i \in net.correct |-> {}]]

\* One validator (id 1) of a network of 1 or 2 validators.
Init ==
    InitHost({ [num_nodes |-> n, num_faulty |-> 0, correct |-> {1},
                inputs |-> BOOLEAN, acts |-> 0] : n \in {1, 2} })

Next == SetInput \/ Receive

Spec == Init /\ [][Next]_vars

\* An observer (id 0, not a validator) of a network of one validator.
InitObserver ==
    InitHost({ [num_nodes |-> 1, num_faulty |-> 0, correct |-> {0},
                inputs |-> BOOLEAN, acts |-> 0] })

SpecObserver == InitObserver /\ [][Next]_vars

\* The host of the observer passes it a message of the validator, of the
\* epoch the observer is in.
Observe ==
    /\ history.calls < MaxObserved
    /\ \E i \in net.correct :
          \E p \in Validators \ {i}, m \in AgreementMessage :
             /\ m.epoch = agreement[i].epoch
             /\ HandleMessage(i, p, m)
             /\ history' = [record(history, call') EXCEPT
                               !.calls = Min(MaxObserved, @ + 1)]
    /\ UNCHANGED <<net, coin_values, messages, cranks>>

NextObserved == SetInput \/ Observe

\* The observer through the epochs: it is given an input among its first
\* MaxCalls calls, and messages of its epoch.
SpecObserved == InitObserver /\ [][NextObserved]_vars

\* The kinds of message of the Aux round: those a peer sends in every
\* epoch, with or without a common coin.
AuxRoundKinds == {"BVal", "Aux", "Term"}

\* The host of the single instance passes it a message of the Aux round of
\* a peer, of the epoch the instance is in.
Deliver ==
    /\ history.calls < MaxCalls
    /\ \E i \in net.correct :
          \E p \in Validators \ {i}, m \in AgreementMessage :
             /\ m.kind \in AuxRoundKinds
             /\ m.epoch = agreement[i].epoch
             /\ HandleMessage(i, p, m)
             /\ history' = [record(history, call') EXCEPT
                               !.calls = Min(MaxCalls, @ + 1)]
    /\ UNCHANGED <<net, coin_values, messages, cranks>>

\* The host of the single instance passes it a message of the Aux round of
\* a peer that is ahead of it, of any later epoch.
Enqueue ==
    /\ history.calls < MaxCalls
    /\ \E i \in net.correct :
          \E p \in Validators \ {i}, m \in AgreementMessage :
             /\ m.kind \in AuxRoundKinds
             /\ m.epoch > agreement[i].epoch
             /\ HandleMessage(i, p, m)
             /\ Len(agreement'[i].incoming_queue) <= MaxQueue
             /\ history' = [record(history, call') EXCEPT
                               !.calls = Min(MaxCalls, @ + 1)]
    /\ UNCHANGED <<net, coin_values, messages, cranks>>

\* One validator (id 1) of a network of 2 validators.
InitAhead ==
    InitHost({ [num_nodes |-> 2, num_faulty |-> 0, correct |-> {1},
                inputs |-> BOOLEAN, acts |-> 0] })

NextAhead == SetInput \/ Deliver \/ Enqueue

\* The single instance with a peer that runs ahead of it: it is given an
\* input, and messages of later epochs arrive before it reaches their epoch.
SpecAhead == InitAhead /\ [][NextAhead]_vars

(***************************************************************************)
(* The test network (src/tests/net/mod.rs).  VirtualNet keeps one queue of *)
(* messages; send_input gives a node its input and crank delivers one      *)
(* message, the oldest unless the adversary put another one first.  The    *)
(* first num_faulty validators are faulty: a message for them goes to the  *)
(* adversary, which answers with the step it likes.  Every node has its    *)
(* input before the first crank.                                           *)
(***************************************************************************)
NetworkMessage(from, payload, to) == [from |-> from, to |-> to, payload |-> payload]

RECURSIVE push_back(_, _, _, _)
\* The inner loop of expand_messages: one message to the nodes `to`, in the
\* order of the node ids.
push_back(dest, sender, payload, to) ==
    IF to = {} THEN dest
    ELSE LET n == CHOOSE x \in to : \A y \in to : x <= y
         IN  push_back(Append(dest, NetworkMessage(sender, payload, n)),
                       sender, payload, to \ {n})

RECURSIVE expand_messages(_, _, _)
\* expand_messages: every message of the step (all are Target::All) to every
\* node but the sender.
expand_messages(sender, msgs, dest) ==
    IF msgs = <<>> THEN dest
    ELSE expand_messages(sender, Tail(msgs),
                         push_back(dest, sender, Head(msgs), Validators \ {sender}))

\* VecDeque::remove
remove(q, k) == [j \in 1..(Len(q) - 1) |-> IF j < k THEN q[j] ELSE q[j + 1]]

\* VirtualNet::send_input
send_input ==
    /\ \E id \in net.correct, input \in net.inputs :
          /\ history.input[id] = None
          /\ accepts_input(agreement[id])
          /\ Input(id, input)
          /\ messages' = expand_messages(id, call'.step.messages, messages)
    /\ UNCHANGED <<net, coin_values, cranks>>

\* Adversary::tamper: the step the adversary answers a message for a faulty
\* node with: nothing, or, while it may still act, one message of the kind
\* and epoch of the message it was handed, to one correct node.
tamper(msg, may_act) ==
    { <<>> } \cup
    { <<NetworkMessage(msg.to, m, to)>> :
         m \in { x \in AgreementMessage : /\ may_act
                                          /\ x.kind = msg.payload.kind
                                          /\ x.epoch = msg.payload.epoch },
         to \in net.correct }

\* VirtualNet::crank
crank ==
    /\ messages # <<>>
    /\ \A i \in net.correct : history.input[i] # None
    /\ \E k \in 1..Len(messages) :
          LET msg == messages[k]
              rest == remove(messages, k)
              \* Adversary::pre_crank moved messages[k] to the front.
              moved == IF k = 1 THEN 0 ELSE 1
          IN  /\ history.adversary + moved <= net.acts
              /\ IF msg.to \in Faulty
                 THEN \E sent \in tamper(msg, history.adversary + moved < net.acts) :
                         /\ messages' = rest \o sent
                         /\ agreement' = agreement
                         /\ call' = [NoCall EXCEPT !.op = "tamper", !.node = msg.to,
                                                   !.sender_id = msg.from,
                                                   !.msg = msg.payload]
                         /\ history' = [history EXCEPT
                                           !.adversary = @ + moved + Len(sent)]
                 ELSE /\ HandleMessage(msg.to, msg.from, msg.payload)
                      /\ messages' = expand_messages(msg.to, call'.step.messages, rest)
                      /\ history' = [record(history, call') EXCEPT !.adversary = @ + moved]
    /\ cranks' = 1 - cranks
    /\ UNCHANGED <<net, coin_values>>

\* VirtualNet::new: four validators, the first of them faulty.
InitNet ==
    InitHost({ [num_nodes |-> 4, num_faulty |-> 1, correct |-> {2, 3, 4},
                inputs |-> BOOLEAN, acts |-> MaxAdversary] })

NextNet == send_input \/ crank

\* VirtualNet::new with no faulty node: four correct validators, and an
\* adversary that does nothing (NullAdversary).
InitAll ==
    InitHost({ [num_nodes |-> 4, num_faulty |-> 1, correct |-> {1, 2, 3, 4},
                inputs |-> BOOLEAN, acts |-> 0] })

SpecAll == InitAll /\ [][NextNet]_vars

SpecNet == InitNet /\ [][NextNet]_vars

\* The same network in the runs in which all nodes are given the same input.
InitSame ==
    InitHost({ [num_nodes |-> 4, num_faulty |-> 1, correct |-> {2, 3, 4},
                inputs |-> {v}, acts |-> MaxAdversary] : v \in BOOLEAN })

\* A step of crank, told by the parity of the number of cranks.
cranked ==
    /\ messages # <<>>
    /\ \A i \in net.correct : history.input[i] # None
    /\ cranks' = 1 - cranks

\* crank is called for as long as there is a message to deliver.
SpecSame == InitSame /\ [][NextNet]_vars /\ WF_cranks(cranked)

(***************************************************************************)
(* The claims.                                                             *)
(***************************************************************************)
\* C1. Agreement: two correct nodes that have both decided have decided the
\* same value.
C1_Agreement ==
    \A i \in net.correct, j \in net.correct :
       (agreement[i].decision # None /\ agreement[j].decision # None)
          => agreement[i].decision = agreement[j].decision

\* Two correct nodes have decided in a run in which the adversary used all
\* its acts and the inputs differed.
C1_Witness ==
    /\ history.adversary = MaxAdversary
    /\ \E i \in net.correct, j \in net.correct :
          /\ i # j
          /\ agreement[i].decision # None
          /\ agreement[j].decision # None
          /\ history.input[i] # history.input[j]

\* C2. Viability: a value a correct node has decided is the input of a
\* correct node.
C2_Viability ==
    \A i \in net.correct :
       \A v \in agreement[i].decision :
          \E j \in net.correct : history.input[j] = Some(v)

\* A correct node has decided in a run in which a correct node had the
\* other value as its input and the adversary sent messages.
C2_Witness ==
    /\ history.adversary = MaxAdversary
    /\ \E i \in net.correct, j \in net.correct :
          /\ agreement[i].decision # None
          /\ history.input[j] # None
          /\ history.input[j] # agreement[i].decision
          /\ call.op = "handle_message" /\ call.node = i /\ call.step.output # <<>>

\* C3. Termination, as the final result of a run: when every correct node
\* has its input and no message is left to deliver, every correct node has
\* decided.
C3_Termination ==
    (messages = <<>> /\ \A i \in net.correct : history.input[i] # None)
       => \A i \in net.correct : agreement[i].decision # None

\* C4. Validity with liveness: when all correct nodes have the same input v,
\* every correct node eventually decides v.
C4_Validity ==
    \A v \in BOOLEAN :
       (\A i \in net.correct : history.input[i] = Some(v))
          ~> (\A i \in net.correct : agreement[i].decision = Some(v))

\* All correct nodes had the input FALSE, the adversary used all its acts
\* and all correct nodes have decided FALSE.
C4_Witness ==
    /\ history.adversary = MaxAdversary
    /\ \A i \in net.correct :
          history.input[i] = Some(FALSE) /\ agreement[i].decision = Some(FALSE)

\* C5. Decision latch: a call on an instance that has decided leaves the
\* decision as it was, and all the steps of an instance together hold at
\* most one output and at most one Term message.
C5_DecisionLatch ==
    \A i \in net.correct :
       /\ history.outputs[i] <= 1
       /\ history.terms[i] <= 1
       /\ (call.node = i /\ call.before.decision # None)
             => agreement[i].decision = call.before.decision

\* A Term message with the other value was passed to an instance that had
\* decided.
C5_Witness ==
    /\ call.op = "handle_message"
    /\ call.msg.kind = "Term"
    /\ call.before.decision # None
    /\ call.msg.val # call.before.decision
    /\ history.outputs[call.node] = 1

\* C6. An input call on a terminated node returns an empty step and changes
\* no state.
C6_InputOnTerminated ==
    (call.op = "input" /\ call.before.terminated)
       => (call.step = Step_default /\ agreement[call.node] = call.before)

C9_Expedite ==
    \A b \in BOOLEAN :
       (/\ call.op = "handle_message"
        /\ call.msg.kind = "Term"
        /\ call.msg.val = {b}
        /\ call.msg.epoch <= call.before.epoch
        /\ call.before.decision = None
        /\ call.sender_id \notin call.term_from[b]
        /\ Cardinality(call.term_from[b] \cup {call.sender_id})
              = call.before.netinfo.num_faulty + 1)
          => (/\ agreement[call.node].decision = Some(b)
              /\ agreement[call.node].terminated
              /\ call.step.output = <<b>>)

\* C10, as claimed.  A message of a later epoch passed to a node that has
\* not terminated is put at the end of incoming_queue and the step is empty;
\* unless the call terminates the node, a queued message of epoch k is
\* dispatched at epoch k in the call in which the node enters epoch k and
\* stays queued in a call in which the node does not get to epoch k; no
\* message is dispatched at another epoch than its own.
C10_Buffering ==
    LET s0 == call.before
        s1 == agreement[call.node]
        queued(s, q) == \E j \in 1..Len(s.incoming_queue) : s.incoming_queue[j] = q
    IN  /\ (call.op = "handle_message" /\ ~s0.terminated /\ call.msg.epoch > s0.epoch)
              => /\ call.step = Step_default
                 /\ s1 = [s0 EXCEPT !.incoming_queue =
                             Append(@, [sender_id |-> call.sender_id, msg |-> call.msg])]
        /\ \A d \in call.dispatched : d.at = d.msg.epoch
        /\ \A j \in 1..Len(s0.incoming_queue) :
              LET q == s0.incoming_queue[j]
              IN  \/ s1.terminated
                  \/ IF q.msg.epoch \in call.entered
                     THEN [sender_id |-> q.sender_id, msg |-> q.msg, at |-> q.msg.epoch]
                             \in call.dispatched
                     ELSE queued(s1, q)

\* C10, amended.  As claimed, but a queued message of epoch k is not
\* dispatched when a message queued before it, replayed at epoch k, has
\* moved the node to the next epoch or terminated it.
C10_BufferingAmended ==
    LET s0 == call.before
        s1 == agreement[call.node]
        queued(s, q) == \E j \in 1..Len(s.incoming_queue) : s.incoming_queue[j] = q
        replayed(q) == [sender_id |-> q.sender_id, msg |-> q.msg, at |-> q.msg.epoch]
                          \in call.dispatched
    IN  /\ (call.op = "handle_message" /\ ~s0.terminated /\ call.msg.epoch > s0.epoch)
              => /\ call.step = Step_default
                 /\ s1 = [s0 EXCEPT !.incoming_queue =
                             Append(@, [sender_id |-> call.sender_id, msg |-> call.msg])]
        /\ \A d \in call.dispatched : d.at = d.msg.epoch
        /\ \A j \in 1..Len(s0.incoming_queue) :
              LET q == s0.incoming_queue[j]
              IN  \/ s1.terminated
                  \/ IF q.msg.epoch \in call.entered
                     THEN \/ replayed(q)
                          \/ /\ (q.msg.epoch + 1) \in call.entered
                             /\ \E h \in 1..(j - 1) :
                                   /\ s0.incoming_queue[h].msg.epoch = q.msg.epoch
                                   /\ replayed(s0.incoming_queue[h])
                     ELSE queued(s1, q)

\* A queued message was replayed in the epoch it was sent for, and the
\* message queued behind it for the same epoch was not, because the replay
\* moved the node on to the next epoch.
C10_Witness ==
    /\ call.op = "handle_message"
    /\ ~agreement[call.node].terminated
    /\ \E j \in 1..Len(call.before.incoming_queue) :
          LET q == call.before.incoming_queue[j]
          IN  /\ q.msg.epoch \in call.entered
              /\ (q.msg.epoch + 1) \in call.entered
              /\ [sender_id |-> q.sender_id, msg |-> q.msg, at |-> q.msg.epoch]
                    \notin call.dispatched

\* C11. Single-node network: the first input(b) call on the validator of a
\* network of one node returns Ok with the output b alone and leaves the
\* node decided on b and terminated.
C11_SingleNode ==
    (/\ call.op = "input"
     /\ call.before = Agreement_new(call.node, 1, 0, TRUE))
       => /\ call.ok
          /\ call.step.output = <<Unwrap(call.input)>>
          /\ agreement[call.node].decision = call.input
          /\ agreement[call.node].terminated

\* The single node was given the input FALSE, which the coin of epoch 0
\* does not decide, and has terminated.
C11_Witness ==
    /\ call.op = "input"
    /\ call.before = Agreement_new(call.node, 1, 0, TRUE)
    /\ call.input = {FALSE}
    /\ agreement[call.node].terminated
    /\ agreement[call.node].epoch > 1

\* C12. Single-shot BVal: no node broadcasts BVal(b) of an epoch more than
\* once.
C12_SingleShotBVal ==
    \A i \in net.correct : \A k \in history.twice[i] : k.kind # "BVal"

\* C13. Single-shot Aux: no node broadcasts more than one Aux of an epoch,
\* and an Aux is broadcast with the value that entered bin_values first in
\* its epoch (bin_values holds that value alone when the Aux is sent).
C13_SingleShotAux ==
    /\ \A i \in net.correct : \A k \in history.twice[i] : k.kind # "Aux"
    /\ \A a \in call.aux_sent : a.bin_values = {a.val}

\* C14. Single-shot Conf: no node broadcasts more than one Conf of an epoch;
\* a Conf is broadcast in an epoch e with e mod 3 = 2 only; conf_round is
\* true once the Conf of the node's epoch has been broadcast, and a call
\* that leaves the node in its epoch leaves conf_round true.
C14_SingleShotConf ==
    /\ \A i \in net.correct :
          /\ \A k \in history.twice[i] : k.kind # "Conf"
          /\ \A k \in history.sent[i] :
                k.kind = "Conf" =>
                   /\ k.epoch % 3 = 2
                   /\ k.epoch = agreement[i].epoch => agreement[i].conf_round
    /\ (call.op \in {"input", "handle_message"} /\ call.before.conf_round
        /\ agreement[call.node].epoch = call.before.epoch)
          => agreement[call.node].conf_round

\* A message was passed to a node that has broadcast the Conf of its epoch
\* and has not terminated, and the node stayed in that epoch.
C14_Witness ==
    /\ call.op = "handle_message"
    /\ call.before.conf_round
    /\ ~call.before.terminated
    /\ call.msg.epoch = call.before.epoch
    /\ agreement[call.node].epoch = call.before.epoch
    /\ \E k \in history.sent[call.node] : k.kind = "Conf" /\ k.epoch = call.before.epoch

\* The peers whose BVal(b) is recorded in received_bval.
bval_senders(s, b) == { p \in Ids : b \in s.received_bval[p] }

\* C15. BVal idempotence: BVal(b) of the node's epoch, passed to a node that
\* has not terminated and has BVal(b) of that peer recorded, returns an
\* empty step and leaves the node as it was.
C15_BValIdempotence ==
    (/\ call.op = "handle_message"
     /\ call.msg.kind = "BVal"
     /\ call.msg.epoch = call.before.epoch
     /\ ~call.before.terminated
     /\ call.msg.val \subseteq call.before.received_bval[call.sender_id])
       => (call.step = Step_default /\ agreement[call.node] = call.before)

\* BVal(b) of a peer was passed a second time to a node that holds BVal(b)
\* of exactly 2f + 1 senders, with f > 0.
C15_Witness ==
    /\ call.op = "handle_message"
    /\ call.msg.kind = "BVal"
    /\ call.msg.epoch = call.before.epoch
    /\ ~call.before.terminated
    /\ call.msg.val \subseteq call.before.received_bval[call.sender_id]
    /\ call.before.netinfo.num_faulty > 0
    /\ Cardinality(bval_senders(call.before, Unwrap(call.msg.val)))
          = 2 * call.before.netinfo.num_faulty + 1

\* C16. Monotonicity: a call does not lower the epoch of the node, and a
\* call that leaves the node in its epoch takes no value out of bin_values;
\* a node on which no call was made is in epoch 0.
C16_Monotonicity ==
    /\ call.op \in {"input", "handle_message"} =>
          /\ call.before.epoch <= agreement[call.node].epoch
          /\ call.before.epoch = agreement[call.node].epoch
                => call.before.bin_values \subseteq agreement[call.node].bin_values
    /\ history.calls = 0 => \A i \in net.correct : agreement[i].epoch = 0

\* A call added the second value to bin_values within the epoch, in an
\* epoch after epoch 0.
C16_Witness ==
    /\ call.op = "handle_message"
    /\ call.before.epoch > 0
    /\ call.before.epoch = agreement[call.node].epoch
    /\ call.before.bin_values # {}
    /\ call.before.bin_values # agreement[call.node].bin_values

\* C17. Term as implicit BVal and Aux: on a node that has not terminated, a
\* peer whose Term(b) of an epoch before the node's epoch was passed to the
\* node counts as a sender of BVal(b) (b is in sent_bval when f + 1 senders
\* are counted, in bin_values when 2f + 1 are) and of Aux(b) (it is among
\* the peers count_aux counts when b is in bin_values).
C17_TermCounts ==
    \A i \in net.correct : \A b \in BOOLEAN :
       LET s == agreement[i]
           terms == { x \in history.term_delivered[i] : x.val = b /\ x.epoch < s.epoch }
           senders == bval_senders(s, b) \cup { x.sender_id : x \in terms }
       IN  ~s.terminated =>
              /\ Cardinality(senders) >= s.netinfo.num_faulty + 1 => b \in s.sent_bval
              /\ Cardinality(senders) >= 2 * s.netinfo.num_faulty + 1 => b \in s.bin_values
              /\ \A x \in terms :
                    b \in s.bin_values =>
                       \/ s.received_term[x.sender_id] = Some(b)
                       \/ s.received_aux[x.sender_id] = Some(b)

\* C18. A node calls input on the common coin of an epoch at most once.
C18_CoinInputOnce ==
    \A i \in net.correct : agreement[i].common_coin.inputs <= 1


\* C19. A node has terminated if and only if it has decided.
C19_TerminatedIffDecided ==
    \A i \in net.correct : agreement[i].terminated <=> agreement[i].decision # None

\* A node that had not decided has decided and terminated on a Term message.
C19_Witness ==
    /\ call.op = "handle_message"
    /\ call.msg.kind = "Term"
    /\ call.before.decision = None
    /\ agreement[call.node].terminated
    /\ agreement[call.node].decision = call.msg.val

\* C20. Between calls, b is in bin_values if and only if BVal(b) of the
\* node's epoch is recorded from at least 2f + 1 senders.
C20_BinValues ==
    \A i \in net.correct : \A b \in BOOLEAN :
       b \in agreement[i].bin_values
          <=> Cardinality(bval_senders(agreement[i], b))
                 >= 2 * agreement[i].netinfo.num_faulty + 1

\* A node holds both values in bin_values, one of them with BVal of more
\* than 2f + 1 senders, the faulty node among them.
C20_Witness ==
    \E i \in net.correct : \E b \in BOOLEAN :
       /\ agreement[i].bin_values = BOOLEAN
       /\ bval_senders(agreement[i], b) \cap Faulty # {}
       /\ Cardinality(bval_senders(agreement[i], b))
             > 2 * agreement[i].netinfo.num_faulty + 1

\* C21. BVal amplification: between calls, on a validator, a value b whose
\* BVal of the node's epoch is recorded from at least f + 1 senders is in
\* sent_bval, and every value of sent_bval is recorded in received_bval
\* under the id of the node.
C21_Amplification ==
    \A i \in net.correct : \A b \in BOOLEAN :
       LET s == agreement[i]
       IN  s.netinfo.is_validator =>
              /\ Cardinality(bval_senders(s, b)) >= s.netinfo.num_faulty + 1
                    => b \in s.sent_bval
              /\ b \in s.sent_bval => b \in s.received_bval[s.netinfo.our_uid]

\* A node holds in sent_bval the value that is not its input, in epoch 0,
\* with BVal of that value recorded from f + 1 peers, f > 0.
C21_Witness ==
    \E i \in net.correct : \E b \in BOOLEAN :
       /\ agreement[i].epoch = 0
       /\ agreement[i].netinfo.num_faulty > 0
       /\ history.input[i] = Some(~b)
       /\ b \in agreement[i].sent_bval
       /\ Cardinality(bval_senders(agreement[i], b) \ {i})
             >= agreement[i].netinfo.num_faulty + 1

\* C22. When every node has its input and the nodes whose input is w,
\* together with the faulty nodes, are at most f, no correct node has w in
\* bin_values and no correct node has decided w.
C22_Unanimity ==
    \A w \in BOOLEAN :
       (/\ \A i \in net.correct : history.input[i] # None
        /\ Cardinality({ i \in net.correct : history.input[i] = Some(w) })
              + Cardinality(Faulty) <= net.num_faulty)
          => \A i \in net.correct :
                /\ ~(w \in agreement[i].bin_values)
                /\ agreement[i].decision # Some(w)

\* No correct node has the input w, one correct node holds BVal(w) of the
\* faulty node next to a non-empty bin_values, and a correct node has
\* decided.
C22_Witness ==
    \E w \in BOOLEAN :
       /\ \A i \in net.correct : history.input[i] = Some(~w)
       /\ Cardinality(Faulty) = net.num_faulty
       /\ \E i \in net.correct :
             /\ bval_senders(agreement[i], w) \cap Faulty # {}
             /\ agreement[i].bin_values # {}
       /\ \E j \in net.correct : agreement[j].decision # None

\* C23. First wins: an Aux (a Conf) of the node's epoch from a peer whose
\* Aux (Conf) of that epoch is stored leaves the stored entry of the peer as
\* it was, while the node stays in the epoch.
C23_FirstWins ==
    (/\ call.op = "handle_message"
     /\ call.msg.epoch = call.before.epoch
     /\ ~call.before.terminated
     /\ agreement[call.node].epoch = call.before.epoch)
       => /\ (call.msg.kind = "Aux" /\ call.before.received_aux[call.sender_id] # None)
                => agreement[call.node].received_aux[call.sender_id]
                      = call.before.received_aux[call.sender_id]
          /\ (call.msg.kind = "Conf" /\ call.before.received_conf[call.sender_id] # None)
                => agreement[call.node].received_conf[call.sender_id]
                      = call.before.received_conf[call.sender_id]

C26_CoinInputGuard ==
    \A x \in call.coin_inputs :
       /\ x.conf_round
       /\ x.confs >= net.num_nodes - net.num_faulty
       /\ x.schedule = "Random"
       /\ x.epoch % 3 = 2

\* A Conf message of a peer, passed to a node that has not terminated, made
\* the node call input on the common coin with exactly N - f Conf values.
C26_Witness ==
    /\ call.op = "handle_message"
    /\ call.msg.kind = "Conf"
    /\ ~call.before.terminated
    /\ \E x \in call.coin_inputs : x.confs = net.num_nodes - net.num_faulty

\* The peers with an Aux of the node's epoch whose value is in bin_values.
aux_peers(s) ==
    { p \in Ids : s.received_aux[p] # None /\ s.received_aux[p] \subseteq s.bin_values }

\* The peers with a recorded Term whose value is in bin_values.
term_peers(s) ==
    { p \in Ids : s.received_term[p] # None /\ s.received_term[p] \subseteq s.bin_values }

emitted(kind, val) ==
    \E k \in 1..Len(call.step.messages) :
       call.step.messages[k] = with_epoch(kind, val, agreement[call.node].epoch)

\* In the last call the message of the present epoch of the node with the
\* given kind and value, from the peer p, was dispatched in that epoch; for
\* the node itself: the node emitted it.
originates(p, kind, val) ==
    IF p = call.node
    THEN emitted(kind, val)
    ELSE \E d \in call.dispatched :
            /\ d.sender_id = p
            /\ d.at = agreement[call.node].epoch
            /\ d.msg = with_epoch(kind, val, agreement[call.node].epoch)

\* Every entry of the buffers of the epoch after the last call was there
\* before the call, in the same epoch, or comes from a message of the
\* present epoch handled in the call; bin_values holds values with BVal of
\* 2f + 1 recorded senders.
entries_of_epoch ==
    LET s0 == call.before
        s == agreement[call.node]
        same == s0.epoch = s.epoch
    IN  call.op \in {"input", "handle_message"} =>
           /\ \A p \in Ids : \A b \in s.received_bval[p] :
                 (same /\ b \in s0.received_bval[p]) \/ originates(p, "BVal", {b})
           /\ \A p \in Ids : s.received_aux[p] # None =>
                 \/ (same /\ s0.received_aux[p] = s.received_aux[p])
                 \/ originates(p, "Aux", s.received_aux[p])
           /\ \A p \in Ids : s.received_conf[p] # None =>
                 \/ (same /\ s0.received_conf[p] = s.received_conf[p])
                 \/ originates(p, "Conf", Unwrap(s.received_conf[p]))
           /\ \A b \in s.sent_bval :
                 (same /\ b \in s0.sent_bval) \/ emitted("BVal", {b})
           /\ \A b \in s.bin_values :
                 Cardinality(bval_senders(s, b)) >= 2 * s.netinfo.num_faulty + 1

\* The f + 1 threshold of the epoch is reached by records of the epoch: a
\* value a validator has in sent_bval is its estimate, or BVal of that value
\* is recorded from f + 1 peers.
thresholds_of_epoch ==
    \A i \in net.correct : \A b \in agreement[i].sent_bval :
       \/ agreement[i].estimated = Some(b)
       \/ Cardinality(bval_senders(agreement[i], b) \ {i})
             >= agreement[i].netinfo.num_faulty + 1

\* C28. Reset discipline: between calls every entry of received_bval,
\* received_aux and received_conf and every element of sent_bval and
\* bin_values comes from a message of the node's present epoch, the node's
\* own messages included, and nothing recorded in an earlier epoch counts
\* towards a threshold of the present epoch.
C28_ResetDiscipline == entries_of_epoch /\ thresholds_of_epoch

\* C29. A node that is not a validator emits no BVal, Aux, Conf or Term
\* message in any step, and it has produced one output if it has decided
\* and none if it has not.
C29_Observer ==
    \A i \in net.correct :
       ~agreement[i].netinfo.is_validator =>
          /\ (call.node = i /\ call.op \in {"input", "handle_message"}) =>
                \A k \in 1..Len(call.step.messages) :
                   call.step.messages[k].kind \notin {"BVal", "Aux", "Conf", "Term"}
          /\ history.sent[i] = {}
          /\ history.terms[i] = 0
          /\ agreement[i].decision # None => history.outputs[i] = 1
          /\ agreement[i].decision = None => history.outputs[i] = 0

\* An observer that had moved to a later epoch has decided in a call, with
\* its output in the step of the call and no message.
C29_Witness ==
    /\ call.op = "handle_message"
    /\ ~call.before.netinfo.is_validator
    /\ call.before.epoch >= 1
    /\ call.before.decision = None
    /\ Len(call.step.output) = 1
    /\ call.step.messages = <<>>
    /\ agreement[call.node].decision = Some(call.step.output[1])

\* C30. In an epoch of schedule Random a node applies a coin value, that
\* is decides or moves to the next epoch, only in a state where conf_round
\* is true, at least N - f stored Conf values are subsets of bin_values and
\* the node has called input on the common coin.
C30_CoinAfterConf ==
    \A c \in call.coins :
       c.schedule = "Random" =>
          /\ c.conf_round
          /\ c.confs >= net.num_nodes - net.num_faulty
          /\ c.had_input

\* C31. In an epoch of schedule Random, between calls, a validator that has
\* not terminated, with bin_values not empty and count_aux at least N - f,
\* has started the Conf round (conf_round is true), also when the count was
\* reached by bin_values growing after the Aux messages had arrived.
C31_ConfRoundStarted ==
    \A i \in net.correct :
       ( /\ agreement[i].netinfo.is_validator
         /\ ~agreement[i].terminated
         /\ agreement[i].coin_schedule = "Random"
         /\ agreement[i].bin_values # {}
         /\ count_aux(agreement[i]).count
               >= agreement[i].netinfo.num_nodes - agreement[i].netinfo.num_faulty )
       => agreement[i].conf_round

\* The N - f threshold of the Aux round is reached on the instance s:
\* bin_values is not empty and count_aux is at least N - f.
aux_threshold(s) ==
    /\ s.bin_values # {}
    /\ count_aux(s).count >= s.netinfo.num_nodes - s.netinfo.num_faulty

\* C32. In an epoch of schedule True or False no node that has not
\* terminated is, between calls, in a state with bin_values not empty and
\* count_aux at least N - f: a call in which the delivery of an Aux, a BVal
\* or a Term message makes that true applies the coin of the schedule and
\* leaves the epoch before it returns.
C32_AuxThreshold ==
    /\ \A i \in net.correct :
          (~agreement[i].terminated /\ agreement[i].coin_schedule \in {"True", "False"})
             => ~aux_threshold(agreement[i])
    /\ \A c \in call.coins :
          c.schedule \in {"True", "False"} =>
             /\ c.coin = (c.schedule = "True")
             /\ c.next = c.epoch + 1
             /\ agreement[call.node].epoch >= c.next

\* C33. Between calls every message held in the incoming_queue of a node
\* is of an epoch later than the epoch of the node, also after a call in
\* which the node moved through several epochs or terminated while it
\* replayed the queue.
C33_QueueAhead ==
    \A i \in net.correct :
       \A k \in 1..Len(agreement[i].incoming_queue) :
          agreement[i].incoming_queue[k].msg.epoch > agreement[i].epoch

\* A call that found messages in the queue took the node through two
\* epochs or more, replayed the queue and left a message in it.
C33_Witness ==
    /\ call.op = "handle_message"
    /\ call.before.incoming_queue # <<>>
    /\ agreement[call.node].epoch >= call.before.epoch + 2
    /\ agreement[call.node].incoming_queue # <<>>

====
